---- MODULE Spec2Model ----
(***************************************************************************)
(* A model of python_stdlib/sequences_and_iterables:                       *)
(*   _00_what_is_a_sequence.py  the class ABCSequence and its clients      *)
(*   _01_enumerate.py           the three loops that pair index and item   *)
(*                                                                         *)
(* Spec      an arbitrary client of one ABCSequence instance: len(),       *)
(*           obj[key], iter()/next() on several live generators, and       *)
(*           reversed()/next().                                            *)
(* SpecEnum  the enumerate script run top to bottom on an input list.      *)
(***************************************************************************)
EXTENDS Integers, Sequences, FiniteSets, TLC

VARIABLES
    gens,     \* the generators made by __iter__, one per client variable
    rev,      \* the iterator made by reversed(abc_sequence), if any
    last,     \* the last call made on the instance and what it gave back
    raised,   \* names of the exceptions __getitem__ has raised so far
    l,        \* _01_enumerate.py: the list l
    pc,       \* _01_enumerate.py: the statement about to run
    i,        \* _01_enumerate.py: the variable i
    rng,      \* _01_enumerate.py: the range iterator of line 5
    lit,      \* _01_enumerate.py: the list iterator of the running for loop
    cnt,      \* _01_enumerate.py: the counter inside enumerate(l)
    out1,     \* pairs printed by the loop of lines 5-6
    out2,     \* pairs printed by the loop of lines 12-14
    out3      \* pairs printed by the loop of lines 21-22

seqVars  == <<gens, rev, last, raised>>
enumVars == <<l, pc, i, rng, lit, cnt, out1, out2, out3>>
vars     == <<gens, rev, last, raised, l, pc, i, rng, lit, cnt, out1, out2, out3>>

----------------------------------------------------------------------------
\* Bounds of the model.

\* client variables that can each hold a generator
MaxGens == 2
\* integer keys run over -MaxKey .. MaxKey
MaxKey == 3
\* a key of two digits, tried with both signs
BigKey == 12
\* the stop of a slice runs over None and 0 .. MaxSlice
MaxSlice == 2
\* input lists of the enumerate script have at most MaxLen items
MaxLen == 3

----------------------------------------------------------------------------
\* Python values.  Every value is a record of one shape:
\*   t  the type name, n an integer payload, s a text payload,
\*   sl the <<start, stop, step>> of a slice, each <<>> (None) or <<k>>.

PyInt(k)   == [t |-> "int",      n |-> k, s |-> "", sl |-> <<>>]
PyBool(b)  == [t |-> "bool",     n |-> IF b THEN 1 ELSE 0, s |-> "", sl |-> <<>>]
PyFloat(k) == [t |-> "float",    n |-> k, s |-> "", sl |-> <<>>]
PyStr(x)   == [t |-> "str",      n |-> 0, s |-> x,  sl |-> <<>>]
PyNone     == [t |-> "NoneType", n |-> 0, s |-> "", sl |-> <<>>]
PySlice(a, b, c) == [t |-> "slice", n |-> 0, s |-> "", sl |-> <<a, b, c>>]

\* isinstance(key, int): bool is a subclass of int.
IsInstanceInt(key) == key.t \in {"int", "bool"}
\* isinstance(key, slice)
IsInstanceSlice(key) == key.t = "slice"

\* What a call gives back: a returned value or a raised exception.
Return(v)     == [kind |-> "return", value |-> v, exc |-> "", msg |-> <<>>]
Raise(e, m)   == [kind |-> "raise", value |-> PyNone, exc |-> e, msg |-> m]

\* str() of an integer, as the sequence of its characters.
DigitChar(d) == <<"0", "1", "2", "3", "4", "5", "6", "7", "8", "9">>[d + 1]

RECURSIVE Digits(_)
Digits(k) == IF k < 10 THEN <<DigitChar(k)>>
             ELSE Digits(k \div 10) \o <<DigitChar(k % 10)>>

\* The f-string field {key} of line 49.
FormatKey(key) ==
    IF key.t = "bool" THEN (IF key.n = 1 THEN <<"True">> ELSE <<"False">>)
    ELSE IF key.n < 0 THEN <<"-">> \o Digits(-key.n)
    ELSE Digits(key.n)

----------------------------------------------------------------------------
\* class ABCSequence

\* A length that counts what the generator of variable 1 has left to yield.
ABCSequence_len_remaining == 3 - Len(gens[1].out)

\* A length that is one too long.
ABCSequence_len_plus == 3 + 1

\* __len__
ABCSequence_len == 3

\* A lookup that counts positions from 1.
ABCSequence_getitem_onebased(key) ==
    IF IsInstanceInt(key) THEN
        IF key.n = 1 THEN Return(PyStr("a"))
        ELSE IF key.n = 2 THEN Return(PyStr("b"))
        ELSE IF key.n = 3 THEN Return(PyStr("c"))
        ELSE Raise("IndexError",
                   FormatKey(key) \o <<" is out of range of the ABCSequence.">>)
    ELSE IF IsInstanceSlice(key) THEN
        Raise("NotImplementedError", <<"Cannot return a slice of the ABCSequence.">>)
    ELSE Return(PyNone)

\* A lookup that takes negative keys from the end, as a list does.
ABCSequence_getitem_wrap(key) ==
    IF IsInstanceInt(key) THEN
        IF key.n \in {0, -3} THEN Return(PyStr("a"))
        ELSE IF key.n \in {1, -2} THEN Return(PyStr("b"))
        ELSE IF key.n \in {2, -1} THEN Return(PyStr("c"))
        ELSE Raise("IndexError",
                   FormatKey(key) \o <<" is out of range of the ABCSequence.">>)
    ELSE IF IsInstanceSlice(key) THEN
        Raise("NotImplementedError", <<"Cannot return a slice of the ABCSequence.">>)
    ELSE Return(PyNone)

\* A lookup without the slice branch.
ABCSequence_getitem_noslice(key) ==
    IF IsInstanceInt(key) THEN
        IF key.n = 0 THEN Return(PyStr("a"))
        ELSE IF key.n = 1 THEN Return(PyStr("b"))
        ELSE IF key.n = 2 THEN Return(PyStr("c"))
        ELSE Raise("IndexError",
                   FormatKey(key) \o <<" is out of range of the ABCSequence.">>)
    ELSE Return(PyNone)

\* A lookup that rejects a key of any other type, as a list does.
ABCSequence_getitem_typeerror(key) ==
    IF IsInstanceInt(key) THEN
        IF key.n = 0 THEN Return(PyStr("a"))
        ELSE IF key.n = 1 THEN Return(PyStr("b"))
        ELSE IF key.n = 2 THEN Return(PyStr("c"))
        ELSE Raise("IndexError",
                   FormatKey(key) \o <<" is out of range of the ABCSequence.">>)
    ELSE IF IsInstanceSlice(key) THEN
        Raise("NotImplementedError", <<"Cannot return a slice of the ABCSequence.">>)
    ELSE Raise("TypeError", <<"ABCSequence indices must be integers or slices">>)

\* __getitem__
ABCSequence_getitem(key) ==
    IF IsInstanceInt(key) THEN
        IF key.n = 0 THEN Return(PyStr("a"))
        ELSE IF key.n = 1 THEN Return(PyStr("b"))
        ELSE IF key.n = 2 THEN Return(PyStr("c"))
        ELSE Raise("IndexError",
                   FormatKey(key) \o <<" is out of range of the ABCSequence.">>)
    ELSE IF IsInstanceSlice(key) THEN
        Raise("NotImplementedError", <<"Cannot return a slice of the ABCSequence.">>)
    ELSE Return(PyNone)

\* __iter__: a generator function.  A generator is suspended at the yield it
\* last ran ("line29", "line30", "line31"), not yet started ("created") or
\* finished ("closed").  GenResume is one next() on a generator at `at`.
GenResume(at) ==
    CASE at = "created" -> [at |-> "line29", res |-> Return(PyStr("a"))]
      [] at = "line29"  -> [at |-> "line30", res |-> Return(PyStr("b"))]
      [] at = "line30"  -> [at |-> "line31", res |-> Return(PyStr("c"))]
      [] at = "line31"  -> [at |-> "closed", res |-> Raise("StopIteration", <<>>)]
      [] at = "closed"  -> [at |-> "closed", res |-> Raise("StopIteration", <<>>)]

----------------------------------------------------------------------------
\* The client of the instance abc_sequence (line 65).

GenIds == 1 .. MaxGens

\* A client variable that holds no generator.
NoGen == [at |-> "none", out |-> <<>>, again |-> FALSE]

\* An iteration that has yielded something or has ended: a variable bound to
\* a new generator after holding one of these starts the iteration again.
Started(g) == g.at \in {"line29", "line30", "line31", "closed"}

\* iter(abc_sequence) returns a generator object; n names the variable it is bound to.
PyGenerator(g) == [t |-> "generator", n |-> g, s |-> "", sl |-> <<>>]
\* reversed(abc_sequence) returns a reversed object.
PyReversed == [t |-> "reversed", n |-> 0, s |-> "", sl |-> <<>>]

\* No reversed object has been made yet.
NoRev == [state |-> "none", index |-> -1, out |-> <<>>, lookups |-> <<>>]

\* The keys the client indexes with.
IntKeys   == {PyInt(k) : k \in (-MaxKey .. MaxKey) \cup {BigKey, -BigKey}}
BoolKeys  == {PyBool(TRUE), PyBool(FALSE)}
SlicePart == {<<>>} \cup {<<k>> : k \in 0 .. MaxSlice}
SliceKeys == {PySlice(a, b, <<>>) : a \in {<<>>, <<0>>}, b \in SlicePart}
                 \cup {PySlice(<<>>, <<>>, <<-1>>)}
OtherKeys == {PyStr("a"), PyStr("1"), PyFloat(1), PyNone}
Keys      == IntKeys \cup BoolKeys \cup SliceKeys \cup OtherKeys

Call(op, g, key, res) == [op |-> op, g |-> g, key |-> key, res |-> res]

SeqInit ==
    /\ gens = [g \in GenIds |-> NoGen]
    /\ rev = NoRev
    /\ last = Call("construct", 0, PyNone, Return(PyNone))
    /\ raised = {}

\* len(abc_sequence)
LenCall ==
    /\ last' = Call("len", 0, PyNone, Return(PyInt(ABCSequence_len)))
    /\ UNCHANGED <<gens, rev, raised>>
    /\ UNCHANGED enumVars

\* A lookup whose failure also closes every live generator.
GetItemClobber ==
    \E key \in Keys :
        LET r == ABCSequence_getitem(key) IN
        /\ last' = Call("getitem", 0, key, r)
        /\ raised' = IF r.kind = "raise" THEN raised \cup {r.exc} ELSE raised
        /\ gens' = IF r.kind = "raise"
                   THEN [g \in GenIds |->
                           IF gens[g].at = "none" THEN gens[g]
                           ELSE [gens[g] EXCEPT !.at = "closed"]]
                   ELSE gens
        /\ UNCHANGED rev
        /\ UNCHANGED enumVars

\* abc_sequence[key]
GetItem ==
    \E key \in Keys :
        LET r == ABCSequence_getitem(key) IN
        /\ last' = Call("getitem", 0, key, r)
        /\ raised' = IF r.kind = "raise" THEN raised \cup {r.exc} ELSE raised
        /\ UNCHANGED <<gens, rev>>
        /\ UNCHANGED enumVars

\* An __iter__ that returns the object itself: the new iteration goes on
\* from where the one before it on this variable stopped.
IterShared(g) ==
    /\ gens' = [gens EXCEPT ![g] =
                   [at |-> IF Started(gens[g]) THEN gens[g].at ELSE "created",
                    out |-> <<>>, again |-> Started(gens[g])]]
    /\ last' = Call("iter", g, PyNone, Return(PyGenerator(g)))
    /\ UNCHANGED <<rev, raised>>
    /\ UNCHANGED enumVars

\* variable g = iter(abc_sequence); whatever g held before is dropped.
Iter(g) ==
    /\ gens' = [gens EXCEPT ![g] =
                   [at |-> "created", out |-> <<>>, again |-> Started(gens[g])]]
    /\ last' = Call("iter", g, PyNone, Return(PyGenerator(g)))
    /\ UNCHANGED <<rev, raised>>
    /\ UNCHANGED enumVars

\* A next() on one cursor that all generators share: every live generator
\* moves on.
GenNextShared(g) ==
    /\ gens[g].at # "none"
    /\ LET r == GenResume(gens[g].at) IN
        /\ gens' = [h \in GenIds |->
                       IF h = g
                       THEN [gens[h] EXCEPT !.at = r.at,
                                            !.out = IF r.res.kind = "return"
                                                    THEN Append(@, r.res.value.s) ELSE @]
                       ELSE IF gens[h].at = "none" THEN gens[h]
                       ELSE [gens[h] EXCEPT !.at = GenResume(gens[h].at).at]]
        /\ last' = Call("next", g, PyNone, r.res)
    /\ UNCHANGED <<rev, raised>>
    /\ UNCHANGED enumVars

\* next(variable g)
GenNext(g) ==
    /\ gens[g].at # "none"
    /\ LET r == GenResume(gens[g].at) IN
        /\ gens' = [gens EXCEPT ![g].at = r.at,
                                ![g].out = IF r.res.kind = "return"
                                           THEN Append(@, r.res.value.s) ELSE @]
        /\ last' = Call("next", g, PyNone, r.res)
    /\ UNCHANGED <<rev, raised>>
    /\ UNCHANGED enumVars

\* reversed(abc_sequence): the class has no __reversed__, so the sequence
\* protocol is used: the reversed object starts at index len() - 1.
Reversed ==
    /\ rev' = [state |-> "live", index |-> ABCSequence_len - 1,
               out |-> <<>>, lookups |-> <<>>]
    /\ last' = Call("reversed", 0, PyNone, Return(PyReversed))
    /\ UNCHANGED <<gens, raised>>
    /\ UNCHANGED enumVars

\* next() on the reversed object: look up obj[index] and step down; an
\* IndexError or StopIteration from the lookup ends the traversal.
RevNext ==
    /\ rev.state = "live"
    /\ IF rev.index >= 0
       THEN LET r == ABCSequence_getitem(PyInt(rev.index)) IN
            IF r.kind = "return"
            THEN /\ rev' = [rev EXCEPT !.index = @ - 1,
                                       !.out = Append(@, r.value.s),
                                       !.lookups = Append(@, <<rev.index, "">>)]
                 /\ last' = Call("rev_next", 0, PyNone, r)
                 /\ UNCHANGED raised
            ELSE /\ rev' = [rev EXCEPT !.index = -1,
                                       !.lookups = Append(@, <<rev.index, r.exc>>)]
                 /\ last' = Call("rev_next", 0, PyNone,
                                 IF r.exc \in {"IndexError", "StopIteration"}
                                 THEN Raise("StopIteration", <<>>) ELSE r)
                 /\ raised' = raised \cup {r.exc}
       ELSE /\ rev' = [rev EXCEPT !.index = -1]
            /\ last' = Call("rev_next", 0, PyNone, Raise("StopIteration", <<>>))
            /\ UNCHANGED raised
    /\ UNCHANGED gens
    /\ UNCHANGED enumVars

----------------------------------------------------------------------------
\* _01_enumerate.py

\* The list literal of lines 4, 10 and 20.
Literal == <<"a", "b", "c", "d", "e">>

Items == {"a", "b"}
InputLists == {Literal} \cup UNION {[1 .. k -> Items] : k \in 0 .. MaxLen}

\* l[k] for a list index k counted from 0.
ListGet(xs, k) == xs[k + 1]

\* print(f"item #{i} is {item}"): the pair that the line shows.
Printed(k, item) == <<k, item>>

EnumInit ==
    /\ pc = "line5"
    /\ i = 0
    /\ rng = [next |-> 0, stop |-> 0]
    /\ lit = 0
    /\ cnt = 0
    /\ out1 = <<>>
    /\ out2 = <<>>
    /\ out3 = <<>>

\* line 5: range(len(l)) is evaluated once, before the loop.
RangeLoopStart ==
    /\ pc = "line5"
    /\ rng' = [next |-> 0, stop |-> Len(l)]
    /\ pc' = "for5"
    /\ UNCHANGED <<l, i, lit, cnt, out1, out2, out3>>
    /\ UNCHANGED seqVars

\* lines 5-6: one turn of `for i in range(len(l))`.
RangeLoopStep ==
    /\ pc = "for5"
    /\ rng.next < rng.stop
    /\ i' = rng.next
    /\ rng' = [rng EXCEPT !.next = @ + 1]
    /\ out1' = Append(out1, Printed(i', ListGet(l, i')))
    /\ UNCHANGED <<l, pc, lit, cnt, out2, out3>>
    /\ UNCHANGED seqVars

\* The range is exhausted; lines 10-12: l is bound to the same literal again,
\* i = 0, and the for statement takes an iterator over l.
CounterLoopStart ==
    /\ pc = "for5"
    /\ rng.next >= rng.stop
    /\ l' = l
    /\ i' = 0
    /\ lit' = 0
    /\ pc' = "for12"
    /\ UNCHANGED <<rng, cnt, out1, out2, out3>>
    /\ UNCHANGED seqVars

\* A turn of the counter loop that counts up before it prints.
CounterLoopStepEarly ==
    /\ pc = "for12"
    /\ lit < Len(l)
    /\ lit' = lit + 1
    /\ i' = i + 1
    /\ out2' = Append(out2, Printed(i', ListGet(l, lit)))
    /\ UNCHANGED <<l, pc, rng, cnt, out1, out3>>
    /\ UNCHANGED seqVars

\* lines 12-14: one turn of `for item in l`, printing and then i += 1.
CounterLoopStep ==
    /\ pc = "for12"
    /\ lit < Len(l)
    /\ lit' = lit + 1
    /\ out2' = Append(out2, Printed(i, ListGet(l, lit)))
    /\ i' = i + 1
    /\ UNCHANGED <<l, pc, rng, cnt, out1, out3>>
    /\ UNCHANGED seqVars

\* The list iterator is exhausted; lines 20-21: l is bound again and
\* enumerate(l) starts counting at 0 over a new iterator.
EnumerateLoopStart ==
    /\ pc = "for12"
    /\ lit >= Len(l)
    /\ l' = l
    /\ cnt' = 0
    /\ lit' = 0
    /\ pc' = "for21"
    /\ UNCHANGED <<i, rng, out1, out2, out3>>
    /\ UNCHANGED seqVars

\* lines 21-22: enumerate yields (count, next item) and counts up; the
\* tuple is unpacked into i and item.
EnumerateLoopStep ==
    /\ pc = "for21"
    /\ lit < Len(l)
    /\ LET pair == <<cnt, ListGet(l, lit)>> IN
        /\ i' = pair[1]
        /\ out3' = Append(out3, Printed(pair[1], pair[2]))
    /\ cnt' = cnt + 1
    /\ lit' = lit + 1
    /\ UNCHANGED <<l, pc, rng, out1, out2>>
    /\ UNCHANGED seqVars

\* enumerate is exhausted: the script ends.
EnumerateLoopEnd ==
    /\ pc = "for21"
    /\ lit >= Len(l)
    /\ pc' = "done"
    /\ UNCHANGED <<l, i, rng, lit, cnt, out1, out2, out3>>
    /\ UNCHANGED seqVars

----------------------------------------------------------------------------
\* Specifications.

Init == SeqInit /\ EnumInit /\ l = Literal

Next ==
    \/ LenCall
    \/ GetItem
    \/ \E g \in GenIds : Iter(g)
    \/ \E g \in GenIds : GenNext(g)
    \/ Reversed
    \/ RevNext

Spec == Init /\ [][Next]_vars

InitEnum == SeqInit /\ EnumInit /\ l \in InputLists

NextEnum ==
    \/ RangeLoopStart
    \/ RangeLoopStep
    \/ CounterLoopStart
    \/ CounterLoopStep
    \/ EnumerateLoopStart
    \/ EnumerateLoopStep
    \/ EnumerateLoopEnd

SpecEnum == InitEnum /\ [][NextEnum]_vars

----------------------------------------------------------------------------
\* Properties.

\* The elements of the container, in order.
ABC == <<"a", "b", "c">>

\* The text that follows the key in the message of an IndexError.
OutOfRangeText == " is out of range of the ABCSequence."

\* Reading a decimal numeral back: the inverse of str() on integers.
DigitValue(c) == CHOOSE d \in 0 .. 9 : DigitChar(d) = c

RECURSIVE ParseNat(_)
ParseNat(cs) == IF cs = <<>> THEN 0
                ELSE 10 * ParseNat(SubSeq(cs, 1, Len(cs) - 1)) + DigitValue(cs[Len(cs)])

ParseInt(cs) == IF cs # <<>> /\ cs[1] = "-" THEN -ParseNat(Tail(cs)) ELSE ParseNat(cs)

\* The last call was abc_sequence[key].
Looked == last.op = "getitem"

\* C1: a lookup with an integer key 0, 1 or 2 returns "a", "b" or "c"
\* respectively and raises nothing.
C1_InRangeLookup ==
    (Looked /\ IsInstanceInt(last.key) /\ last.key.n \in 0 .. 2)
        => last.res = Return(PyStr(ABC[last.key.n + 1]))

C1_Witness ==
    /\ Looked
    /\ last.key = PyInt(2)
    /\ last.res = Return(PyStr("c"))
    /\ raised # {}

\* C2: a lookup with an integer key outside 0 .. 2, negative or 3 and above,
\* reaches the caller as an IndexError whose message starts with that key.
C2_OutOfRangeLookup ==
    (Looked /\ IsInstanceInt(last.key) /\ last.key.n \notin 0 .. 2)
        => /\ last.res.kind = "raise"
           /\ last.res.exc = "IndexError"
           /\ Len(last.res.msg) >= 2
           /\ last.res.msg[Len(last.res.msg)] = OutOfRangeText
           /\ ParseInt(SubSeq(last.res.msg, 1, Len(last.res.msg) - 1)) = last.key.n
           /\ "IndexError" \in raised

C2_Witness ==
    /\ Looked
    /\ last.key = PyInt(-BigKey)
    /\ last.res.exc = "IndexError"
    /\ last.res.msg = <<"-">> \o Digits(BigKey) \o <<OutOfRangeText>>

\* C3: a lookup with a slice key, whatever its bounds, reaches the caller as
\* a NotImplementedError and returns nothing.
C3_SliceLookup ==
    (Looked /\ IsInstanceSlice(last.key))
        => /\ last.res.kind = "raise"
           /\ last.res.exc = "NotImplementedError"
           /\ "NotImplementedError" \in raised

C3_Witness ==
    /\ Looked
    /\ last.key = PySlice(<<>>, <<2>>, <<>>)
    /\ last.res.exc = "NotImplementedError"

\* C4: len() returns 3 in every state, whatever was called before.
C4_LenIsThree ==
    (last.op = "len") => last.res = Return(PyInt(3))

C4_Witness ==
    /\ last.op = "len"
    /\ last.res = Return(PyInt(3))
    /\ raised = {"IndexError", "NotImplementedError"}
    /\ \E g \in GenIds : gens[g].at = "line30"
    /\ \E g \in GenIds : gens[g].at = "closed"
    /\ rev.state = "live" /\ rev.index = 0

\* What a generator suspended or finished at `at` has yielded so far.
YieldedAt(at) ==
    CASE at = "created" -> <<>>
      [] at = "line29"  -> <<"a">>
      [] at = "line30"  -> <<"a", "b">>
      [] at = "line31"  -> ABC
      [] at = "closed"  -> ABC

\* C5: every iteration yields "a", "b", "c" in that order and then ends, and
\* so does one started on a variable whose earlier iteration was exhausted or
\* left part-way.
C5_IterationYieldsABC ==
    /\ \A g \in GenIds :
           gens[g].at # "none" => gens[g].out = YieldedAt(gens[g].at)
    /\ (last.op = "next" /\ last.res.kind = "raise")
           => /\ last.res.exc = "StopIteration"
              /\ gens[last.g].at = "closed"
              /\ gens[last.g].out = ABC
    /\ (last.op = "next" /\ last.res.kind = "return")
           => /\ gens[last.g].out # <<>>
              /\ last.res.value = PyStr(gens[last.g].out[Len(gens[last.g].out)])
    /\ (last.op = "iter") => gens[last.g].at = "created"

C5_Witness ==
    \E g \in GenIds :
        /\ gens[g].again
        /\ gens[g].at = "closed"
        /\ gens[g].out = ABC
        /\ last = Call("next", g, PyNone, Raise("StopIteration", <<>>))

\* C6: two iterations live at once are independent: a step of one, or the
\* start of a new one, leaves every other generator where it was, and each
\* goes through "a", "b", "c" in order.
C6_IndependentIterations ==
    [][ \A g \in GenIds :
          /\ (last'.op \in {"next", "iter"} /\ last'.g # g) => gens'[g] = gens[g]
          /\ (last'.op = "next" /\ last'.g = g /\ gens[g].at # "closed")
                 => /\ gens'[g].at # gens[g].at
                    /\ gens'[g].out = YieldedAt(gens'[g].at)
                    /\ Len(gens'[g].out) >= Len(gens[g].out) ]_vars

C6_Witness ==
    /\ gens[1].at = "line31" /\ gens[1].out = ABC
    /\ gens[2].at = "line29" /\ gens[2].out = <<"a">>
    /\ last.op = "next" /\ last.g = 2

\* The elements as the lookups show them.
Elements == [k \in 1 .. ABCSequence_len |-> ABCSequence_getitem(PyInt(k - 1)).value.s]

\* C7: no call changes the container: len() and lookups, failed ones too,
\* leave every live iteration where it was, iterating leaves the reversed
\* traversal alone and the reverse, and the elements stay a, b, c.
C7_Immutable ==
    [][ /\ (last'.op \in {"len", "getitem"}) => (gens' = gens /\ rev' = rev)
        /\ (last'.op \in {"iter", "next"}) => rev' = rev
        /\ (last'.op \in {"reversed", "rev_next"}) => gens' = gens
        /\ Elements = ABC /\ Elements' = ABC ]_vars

C7_Witness ==
    /\ Looked
    /\ last.res.kind = "raise"
    /\ \E g \in GenIds : gens[g].at = "line29"
    /\ \E g \in GenIds : gens[g].at = "line30"
    /\ rev.state = "live" /\ rev.index = 1

\* The reverse of the elements.
CBA == <<"c", "b", "a">>

\* C8: reversed() reads len() and looks up len()-1 down to 0: it yields "c",
\* "b", "a" and ends, and none of its lookups raises.
C8_ReversedYieldsCBA ==
    (rev.state = "live")
        => /\ rev.index \in -1 .. 2
           /\ rev.out = SubSeq(CBA, 1, 2 - rev.index)
           /\ rev.lookups = [k \in 1 .. (2 - rev.index) |-> <<3 - k, "">>]
           /\ (last.op = "rev_next" /\ last.res.kind = "raise")
                  => (last.res.exc = "StopIteration" /\ rev.out = CBA)

C8_Witness ==
    /\ rev.state = "live"
    /\ rev.out = CBA
    /\ rev.lookups = <<<<2, "">>, <<1, "">>, <<0, "">>>>
    /\ last = Call("rev_next", 0, PyNone, Raise("StopIteration", <<>>))

\* The pairs (k, l[k]) for k = 0 .. len(l)-1, in increasing order.
IndexedPairs(xs) == [k \in 1 .. Len(xs) |-> <<k - 1, xs[k]>>]

\* C9: the three loops print the same pairs, (k, l[k]) for k = 0 .. len(l)-1
\* in increasing order, one per element.
C9_LoopsAgree ==
    /\ (pc \in {"for12", "for21", "done"}) => out1 = IndexedPairs(l)
    /\ (pc \in {"for21", "done"}) => out2 = out1
    /\ (pc = "done") => (out3 = out2 /\ Len(out3) = Len(l))

C9_Witness ==
    /\ pc = "done"
    /\ l = Literal
    /\ out3 = <<<<0, "a">>, <<1, "b">>, <<2, "c">>, <<3, "d">>, <<4, "e">>>>

\* C10: a lookup with a key that is neither an integer nor a slice raises
\* nothing and returns None.
C10_OtherKeyReturnsNone ==
    (Looked /\ ~IsInstanceInt(last.key) /\ ~IsInstanceSlice(last.key))
        => /\ last.res = Return(PyNone)
           /\ last.res.value.s \notin {"a", "b", "c"}

C10_Witness ==
    /\ Looked
    /\ last.key = PyFloat(1)
    /\ last.res = Return(PyNone)

====
